---- MODULE Spec2Model ----
(***************************************************************************)
(* The XML-to-model binding layer of the boardgamegeek SDK                 *)
(* (src/src/bgg/models/bgg.py): lookup strategies, BGGBaseModel.from_xml,  *)
(* BGGBaseModel._get_xml_value and BGGBaseList.validate_xml, together with *)
(* the xml.etree and pydantic behaviour they rely on.                      *)
(*                                                                         *)
(* Representation.  A Python str is a sequence of symbols; the symbol " "  *)
(* is whitespace and every other symbol is a non-blank piece of text.      *)
(* Python values are tagged records [kind, val] so that None, str, int,    *)
(* Element and list values can be told apart.  Field metadata is read as   *)
(* XMLField stores it: json_schema_extra.get("xml_lookup_strategy") is the *)
(* strategy token and json_schema_extra.get("xml_tag") the tag.            *)
(*                                                                         *)
(* Beside the binding layer the module follows the runtime around it:      *)
(* with_retry (src/src/bgg/utils/retry.py), FileCache and cached_request   *)
(* (src/src/bgg/utils/cache.py), BGGClient.get_thing as coroutines         *)
(* (src/src/bgg/clients), and Settings.setup_logging as threads            *)
(* (src/src/bgg/settings.py).  Each part has its own specification over    *)
(* the one tuple of variables; the parts it does not use stay at rest.     *)
(***************************************************************************)
EXTENDS Integers, Sequences, FiniteSets, TLC

VARIABLES
    xml_elem,   \* the ET.Element handed to the operation
    op,         \* the operation that has run: "start" before any
    tag,        \* _get_xml_value: the tag argument
    strategy,   \* _get_xml_value: the strategy argument
    result,     \* what the operation returned, or the exception it raised
    full_dict,  \* from_xml: the value map handed to model_validate
    log,        \* records emitted through logger.warning, oldest first
    now,        \* the wall clock read by default_factory
    previous,   \* what an earlier bind of the same element returned
    retry,      \* one call through the wrapper with_retry makes
    cache_enabled, \* settings.cache_enabled
    files,      \* the cache directory: the content of each cache file
    cache_call, \* the last call of a FileCache method and what it did
    calls,      \* the get_thing calls made so far, oldest first
    requests,   \* the outbound HTTP requests issued so far, oldest first
    tasks,      \* the get_thing coroutines in flight
    logging     \* the root logger, settings.logging_lock and the threads
                \* inside settings.setup_logging

cacheVars == <<cache_enabled, files, cache_call>>

clientVars == <<calls, requests, tasks>>

loggingVars == <<logging>>

\* the state outside the binding layer
runtime == <<retry, cacheVars, clientVars, loggingVars>>

vars == <<xml_elem, op, tag, strategy, result, full_dict, log, now, previous, runtime>>

\* the state of the binding layer but the clock
binding == <<xml_elem, op, tag, strategy, result, full_dict, log, previous>>

-----------------------------------------------------------------------------
(* Bounds *)

\* most direct children of an element given to _get_xml_value
MaxChildren == 2

\* most direct children of a game element given to BGGGame.from_xml
MaxGameChildren == 2

\* most elements in the sequence given to a list bind
MaxItems == 3

\* most <name> children of a game whose primary_name is read
MaxNames == 3

\* largest max_retries a wrapper is built with
MaxRetries == 3

\* last instant of the clock the cache is used at
MaxTime == 3

\* most get_thing calls made through the response cache
MaxCalls == 2

\* last instant of the clock the client is followed to, in units of
\* 1/UnitsPerSecond seconds
Horizon == 6

\* most calls of settings.setup_logging one thread makes
MaxSetupCalls == 2

-----------------------------------------------------------------------------
(* Python values *)

None == [kind |-> "none", val |-> <<>>]
PyStr(s) == [kind |-> "str", val |-> s]
PyInt(n) == [kind |-> "int", val |-> n]
PyElem(e) == [kind |-> "elem", val |-> e]
PyList(l) == [kind |-> "list", val |-> l]
PyModel(m) == [kind |-> "model", val |-> m]
ValidationError == [kind |-> "ValidationError", val |-> <<>>]

\* the empty mapping: Element.attrib of an element without attributes, {}
EmptyDict == [k \in {} |-> None]

\* d[k] = v on a dict
DictSet(d, k, v) == [x \in (DOMAIN d) \cup {k} |-> IF x = k THEN v ELSE d[x]]

\* all sequences over S of length at most n
SeqUpTo(S, n) == UNION {[1..k -> S] : k \in 0..n}

-----------------------------------------------------------------------------
(* The runtime at rest: no call through with_retry under way. *)

RetryIdle ==
    [pc |-> "idle", max_retries |-> 0, backoff_factor |-> 0, attempt |-> 0,
     outcomes |-> <<>>, sleeps |-> <<>>, exc |-> "none"]

\* an empty cache directory
NoFiles == [path \in {} |-> None]

CacheIdle == [op |-> "none", key |-> "", value |-> None, ttl |-> 0, at |-> 0,
              before |-> None, ret |-> None, raise |-> "none"]

\* no get_thing call made or in flight
ClientIdle ==
    /\ calls = <<>>
    /\ requests = <<>>
    /\ tasks = <<>>

\* logging as the import of bgg.settings leaves it: configured once, the
\* console handler installed, the lock free, no thread inside
LoggingConfigured ==
    [lock |-> "free", configured |-> TRUE, handlers |-> <<"console">>, runs |-> 1,
     pc |-> <<>>, made |-> <<>>]

RuntimeIdle ==
    /\ retry = RetryIdle
    /\ cache_enabled = TRUE
    /\ files = NoFiles
    /\ cache_call = CacheIdle
    /\ ClientIdle
    /\ logging = LoggingConfigured

-----------------------------------------------------------------------------
(* str *)

IsSpace(c) == c = " "

RECURSIVE lstrip(_)
lstrip(s) == IF s # <<>> /\ IsSpace(Head(s)) THEN lstrip(Tail(s)) ELSE s

RECURSIVE rstrip(_)
rstrip(s) ==
    IF s # <<>> /\ IsSpace(s[Len(s)]) THEN rstrip(SubSeq(s, 1, Len(s) - 1)) ELSE s

\* str.strip()
strip(s) == rstrip(lstrip(s))

-----------------------------------------------------------------------------
(* xml.etree.ElementTree.Element: tag, attrib, text, and the direct        *)
(* children in document order.                                             *)

Element(t, a, x, c) == [tag |-> t, attrib |-> a, text |-> x, children |-> c]

\* Element.get(key): the attribute's value, None when the attribute is absent
ElemGet(e, key) == IF key \in DOMAIN e.attrib THEN PyStr(e.attrib[key]) ELSE None

\* Element.findall(tag): the direct children named tag, in document order
RECURSIVE SelectTag(_, _)
SelectTag(cs, t) ==
    IF cs = <<>> THEN <<>>
    ELSE IF Head(cs).tag = t THEN <<Head(cs)>> \o SelectTag(Tail(cs), t)
    ELSE SelectTag(Tail(cs), t)

ElemFindAll(e, t) == SelectTag(e.children, t)

\* Element.find(tag): the first direct child named tag, None when there is none
ElemFind(e, t) ==
    IF \E i \in 1..Len(e.children) : e.children[i].tag = t
    THEN LET i == CHOOSE i \in 1..Len(e.children) :
                    /\ e.children[i].tag = t
                    /\ \A j \in 1..(i - 1) : e.children[j].tag # t
         IN PyElem(e.children[i])
    ELSE None

\* Element.findtext(tag): the text of the first direct child named tag, ""
\* when that child has no text, None when there is no such child
ElemFindText(e, t) ==
    LET c == ElemFind(e, t)
    IN IF c = None THEN None
       ELSE IF c.val.text = None THEN PyStr(<<>>)
       ELSE c.val.text

-----------------------------------------------------------------------------
(* XMLLookupStrategy *)

ATTRIBUTE == "attribute"
TEXT == "text"
FIND == "find"
FINDALL == "findall"
AUTO == "auto"

XMLLookupStrategy == {ATTRIBUTE, TEXT, FIND, FINDALL, AUTO}

\* truthiness of an optional str: not None and not ""
Truthy(v) == v # None /\ v.val # <<>>

\* the ATTRIBUTE branch of _get_xml_value
GetXmlValueAttribute(e, t) == ElemGet(e, t)

\* a TEXT branch that trims and drops blank text
GetXmlValueTextTrimmed(e, t) ==
    IF ElemFindText(e, t) = None \/ strip(ElemFindText(e, t).val) = <<>> THEN None
    ELSE PyStr(strip(ElemFindText(e, t).val))

\* the TEXT branch of _get_xml_value
GetXmlValueText(e, t) == ElemFindText(e, t)

\* a FIND branch that falls back to the attribute of the parent and prefers
\* the text of the child to its value attribute
GetXmlValueFindTextFirst(e, t) ==
    IF ElemFind(e, t) = None THEN ElemGet(e, t)
    ELSE LET elem == ElemFind(e, t).val
         IN IF elem.text # None THEN elem.text
            ELSE IF "value" \in DOMAIN elem.attrib THEN PyStr(elem.attrib["value"])
            ELSE None

\* the FIND branch of _get_xml_value
GetXmlValueFind(e, t) ==
    IF ElemFind(e, t) = None THEN None
    ELSE LET elem == ElemFind(e, t).val
         IN IF "value" \in DOMAIN elem.attrib THEN PyStr(elem.attrib["value"])
            ELSE elem.text

\* a FINDALL branch that returns the list as it is, empty or not
GetXmlValueFindAllNoNone(e, t) == PyList(ElemFindAll(e, t))

\* the FINDALL branch of _get_xml_value
GetXmlValueFindAll(e, t) ==
    LET elements == ElemFindAll(e, t)
    IN IF elements # <<>> THEN PyList(elements) ELSE None

\* an AUTO branch that looks at the child before the attribute
GetXmlValueAutoChildFirst(e, t) ==
    IF ElemFind(e, t) # None THEN
        LET elem == ElemFind(e, t).val
        IN IF "value" \in DOMAIN elem.attrib THEN PyStr(elem.attrib["value"])
           ELSE IF Truthy(elem.text) /\ strip(elem.text.val) # <<>>
                THEN PyStr(strip(elem.text.val))
           ELSE PyElem(elem)
    ELSE ElemGet(e, t)

\* an AUTO branch that hands back every child named tag once there is more
\* than one of them
GetXmlValueAutoListOfMany(e, t) ==
    IF ElemGet(e, t) # None THEN ElemGet(e, t)
    ELSE IF Len(ElemFindAll(e, t)) > 1 THEN PyList(ElemFindAll(e, t))
    ELSE IF ElemFind(e, t) # None THEN
        LET elem == ElemFind(e, t).val
        IN IF "value" \in DOMAIN elem.attrib THEN PyStr(elem.attrib["value"])
           ELSE IF Truthy(elem.text) /\ strip(elem.text.val) # <<>>
                THEN PyStr(strip(elem.text.val))
           ELSE PyElem(elem)
    ELSE None

\* the AUTO branch of _get_xml_value
GetXmlValueAuto(e, t) ==
    IF ElemGet(e, t) # None THEN ElemGet(e, t)
    ELSE IF ElemFind(e, t) # None THEN
        LET elem == ElemFind(e, t).val
        IN IF "value" \in DOMAIN elem.attrib THEN PyStr(elem.attrib["value"])
           ELSE IF Truthy(elem.text) /\ strip(elem.text.val) # <<>>
                THEN PyStr(strip(elem.text.val))
           ELSE PyElem(elem)
    ELSE IF ElemFindText(e, t) # None THEN
        (IF strip(ElemFindText(e, t).val) # <<>>
         THEN PyStr(strip(ElemFindText(e, t).val)) ELSE None)
    ELSE IF ElemFindAll(e, t) # <<>> THEN PyList(ElemFindAll(e, t))
    ELSE None

\* BGGBaseModel._get_xml_value(xml_elem, tag, strategy)
GetXmlValue(e, t, s) ==
    CASE s = ATTRIBUTE -> GetXmlValueAttribute(e, t)
      [] s = TEXT -> GetXmlValueText(e, t)
      [] s = FIND -> GetXmlValueFind(e, t)
      [] s = FINDALL -> GetXmlValueFindAll(e, t)
      [] s = AUTO -> GetXmlValueAuto(e, t)
      [] OTHER -> None

-----------------------------------------------------------------------------
(* Field metadata and the schemas of the record types. *)

\* a field without a default value
Required == [kind |-> "required", val |-> <<>>]
\* a field whose default is made by default_factory
DefaultFactory == [kind |-> "default_factory", val |-> <<>>]
\* a datetime, as the clock tick it denotes
PyDatetime(n) == [kind |-> "datetime", val |-> n]
\* a validated URL
PyUrl(s) == [kind |-> "url", val |-> s]

\* "" stands for an xml_tag or alias that was not given
Unset == ""

\* a field declared through XMLField(lookup_strategy, xml_tag, alias)
XMLField(n, ty, ls, xt, al, d) ==
    [name |-> n, type |-> ty, extra |-> TRUE, lookup_strategy |-> ls,
     xml_tag |-> xt, alias |-> al, default |-> d]

\* a field declared without XML metadata (no json_schema_extra)
PlainField(n, ty, d) ==
    [name |-> n, type |-> ty, extra |-> FALSE, lookup_strategy |-> AUTO,
     xml_tag |-> Unset, alias |-> Unset, default |-> d]

\* caseconverter's flatcase on the names the schemas use: word delimiters go,
\* everything is lower case
flatcase(s) ==
    CASE s = "sort_index" -> "sortindex"
      [] s = "link_type" -> "linktype"
      [] s = "name_type" -> "nametype"
      [] s = "game_type" -> "gametype"
      [] s = "total_votes" -> "totalvotes"
      [] s = "year_published" -> "yearpublished"
      [] s = "min_players" -> "minplayers"
      [] s = "max_players" -> "maxplayers"
      [] s = "playing_time" -> "playingtime"
      [] s = "min_playtime" -> "minplaytime"
      [] s = "max_playtime" -> "maxplaytime"
      [] s = "min_age" -> "minage"
      [] s = "fetched_at" -> "fetchedat"
      [] OTHER -> s

flatcase_alias(s) == flatcase(s)

BGGGameType == {"boardgame", "boardgameexpansion", "boardgameaccessory"}

BGGLinkType ==
    {"boardgamecategory", "boardgamemechanic", "boardgamedesigner",
     "boardgamepublisher", "boardgameartist", "boardgamefamily",
     "boardgameexpansion", "boardgameaccessory", "boardgameintegration",
     "boardgameimplementation"}

CATEGORY == "boardgamecategory"

BGGLink ==
    << XMLField("link_type", "BGGLinkType", ATTRIBUTE, Unset, "type", Required),
       XMLField("id", "int", ATTRIBUTE, Unset, Unset, Required),
       XMLField("value", "str", ATTRIBUTE, Unset, Unset, Required) >>

BGGName ==
    << XMLField("name_type", "str", ATTRIBUTE, Unset, "type", Required),
       XMLField("value", "str", ATTRIBUTE, Unset, Unset, Required),
       XMLField("sort_index", "int", ATTRIBUTE, Unset, Unset, Required) >>

BGGPoll ==
    << PlainField("name", "str", Required),
       PlainField("title", "str", Required),
       PlainField("total_votes", "int", Required),
       PlainField("results", "dict", [kind |-> "dict", val |-> <<>>]) >>

BGGGame ==
    << XMLField("id", "int", ATTRIBUTE, Unset, Unset, Required),
       XMLField("game_type", "BGGGameType", ATTRIBUTE, Unset, "type", Required),
       XMLField("names", "BGGNameList", FINDALL, "name", "name", PyList(<<>>)),
       XMLField("thumbnail", "HttpUrl", TEXT, Unset, Unset, None),
       XMLField("image", "HttpUrl", TEXT, Unset, Unset, None),
       XMLField("description", "str", TEXT, Unset, Unset, None),
       XMLField("year_published", "int", ATTRIBUTE, Unset, "yearpublished", None),
       XMLField("min_players", "int", ATTRIBUTE, Unset, "minplayers", None),
       XMLField("max_players", "int", ATTRIBUTE, Unset, "maxplayers", None),
       XMLField("playing_time", "int", ATTRIBUTE, Unset, "playingtime", None),
       XMLField("min_playtime", "int", ATTRIBUTE, Unset, "minplaytime", None),
       XMLField("max_playtime", "int", ATTRIBUTE, Unset, "maxplaytime", None),
       XMLField("min_age", "int", ATTRIBUTE, Unset, "minage", None),
       XMLField("links", "BGGLinkList", FINDALL, "link", Unset, PyList(<<>>)),
       PlainField("polls", "BGGPollList", PyList(<<>>)),
       PlainField("statistics", "BGGStatistics", None),
       PlainField("fetched_at", "datetime", DefaultFactory) >>

\* the tokens a field may store as its strategy: the members of the enum,
\* and strings that are the value of no member
StoredTokens == XMLLookupStrategy \cup {"xpath", "ATTRIBUTE"}

\* a record type of two optional fields declared with one stored token,
\* XMLField(lookup_strategy=token, alias="type") and
\* XMLField(lookup_strategy=token)
TokenModel(token) ==
    << XMLField("kind", "str", token, Unset, "type", None),
       XMLField("link", "str", token, Unset, Unset, None) >>

\* the name of the record type declared with a token
TokenClass(token) == <<"TokenModel", token>>

\* cls.model_fields
model_fields(cls) ==
    CASE cls = "BGGGame" -> BGGGame
      [] cls = "BGGName" -> BGGName
      [] cls = "BGGLink" -> BGGLink
      [] cls = "BGGPoll" -> BGGPoll
      [] OTHER -> TokenModel(cls[2])

\* BGGBaseList.base_cls(): the record type a list type holds
base_cls(listcls) ==
    CASE listcls = "BGGNameList" -> "BGGName"
      [] listcls = "BGGLinkList" -> "BGGLink"
      [] listcls = "BGGPollList" -> "BGGPoll"

ListTypes == {"BGGNameList", "BGGLinkList", "BGGPollList"}

\* field_info.alias: the alias given, else the one alias_generator makes
FieldAlias(f) == IF f.alias # Unset THEN f.alias ELSE flatcase_alias(f.name)

-----------------------------------------------------------------------------
(* BGGBaseModel.from_xml: the per-field loop. *)

\* a resolution that hands the stored token on as it is
ResolveStrategyAsStored(f) == IF f.extra THEN f.lookup_strategy ELSE AUTO

\* from_xml: the strategy of a field, AUTO when the stored token is no
\* member of XMLLookupStrategy
ResolveStrategy(f) ==
    LET lookup_strategy == IF f.extra THEN f.lookup_strategy ELSE AUTO
    IN IF lookup_strategy \in XMLLookupStrategy THEN lookup_strategy ELSE AUTO

\* from_xml: tag = xml_tag or field_info.alias or field_name
ResolveTag(f) ==
    IF f.extra /\ f.xml_tag # Unset THEN f.xml_tag
    ELSE IF FieldAlias(f) # Unset THEN FieldAlias(f)
    ELSE f.name

\* the record logger.warning emits for a missing field
Warning(t, e) == [field |-> t, elem |-> e.tag]

\* a loop body that warns whatever the strategy
BindFieldWarnAuto(acc, f, e) ==
    LET lookup_strategy == ResolveStrategy(f)
        t == ResolveTag(f)
        value == GetXmlValue(e, t, lookup_strategy)
    IN IF value # None THEN [acc EXCEPT !.dict = DictSet(@, t, value)]
       ELSE [acc EXCEPT !.log = Append(@, Warning(t, e))]

\* from_xml: one pass of the loop over cls.model_fields
BindField(acc, f, e) ==
    LET lookup_strategy == ResolveStrategy(f)
        t == ResolveTag(f)
        value == GetXmlValue(e, t, lookup_strategy)
    IN IF value # None THEN [acc EXCEPT !.dict = DictSet(@, t, value)]
       ELSE IF lookup_strategy # AUTO
            THEN [acc EXCEPT !.log = Append(@, Warning(t, e))]
       ELSE acc

\* from_xml: the loop, in field order
RECURSIVE BindFields(_, _, _)
BindFields(fields, e, acc) ==
    IF fields = <<>> THEN acc
    ELSE BindFields(Tail(fields), e, BindField(acc, Head(fields), e))

-----------------------------------------------------------------------------
(* pydantic: cls.model_validate(full_dict). *)

Digits == {"0", "1", "2", "3", "4", "5", "6", "7", "8", "9"}

DigitVal(c) ==
    CASE c = "0" -> 0 [] c = "1" -> 1 [] c = "2" -> 2 [] c = "3" -> 3 [] c = "4" -> 4
      [] c = "5" -> 5 [] c = "6" -> 6 [] c = "7" -> 7 [] c = "8" -> 8 [] c = "9" -> 9

\* a str that int() accepts: decimal digits
IsIntStr(s) == s # <<>> /\ \A i \in 1..Len(s) : s[i] \in Digits

RECURSIVE ParseInt(_)
ParseInt(s) ==
    IF s = <<>> THEN 0 ELSE 10 * ParseInt(SubSeq(s, 1, Len(s) - 1)) + DigitVal(s[Len(s)])

\* a str that HttpUrl accepts: a scheme, then a host without blanks
IsHttpUrl(s) ==
    /\ Len(s) >= 2
    /\ s[1] \in {"http://", "https://"}
    /\ \A i \in 2..Len(s) : ~IsSpace(s[i])

\* the outcome of a validation step: what it returns or raises, and what it
\* logged on the way
Outcome(r, l) == [ret |-> r, log |-> l]

Failed(o) == o.ret.kind = "ValidationError"

RECURSIVE FromXml(_, _, _)

\* a list bind that leaves out the elements that fail to bind
RECURSIVE BindItemsSkipFailed(_, _, _, _)
BindItemsSkipFailed(cls, items, clock, acc) ==
    IF items = <<>> THEN acc
    ELSE LET r == FromXml(cls, Head(items), clock)
         IN BindItemsSkipFailed(cls, Tail(items), clock,
                Outcome(IF Failed(r) THEN acc.ret ELSE PyList(Append(acc.ret.val, r.ret)),
                        acc.log \o r.log))

\* a list bind that drops a record equal to one bound before it
RECURSIVE BindItemsDedup(_, _, _, _)
BindItemsDedup(cls, items, clock, acc) ==
    IF items = <<>> THEN acc
    ELSE LET r == FromXml(cls, Head(items), clock)
         IN IF Failed(r) THEN Outcome(ValidationError, acc.log \o r.log)
            ELSE BindItemsDedup(cls, Tail(items), clock,
                     Outcome(IF \E i \in 1..Len(acc.ret.val) : acc.ret.val[i] = r.ret
                             THEN acc.ret ELSE PyList(Append(acc.ret.val, r.ret)),
                             acc.log \o r.log))

\* validate_xml: [cls.base_cls().from_xml(item) for item in data]; the first
\* item that raises ends the comprehension
RECURSIVE BindItems(_, _, _, _)
BindItems(cls, items, clock, acc) ==
    IF items = <<>> THEN acc
    ELSE LET r == FromXml(cls, Head(items), clock)
         IN IF Failed(r) THEN Outcome(ValidationError, acc.log \o r.log)
            ELSE BindItems(cls, Tail(items), clock,
                     Outcome(PyList(Append(acc.ret.val, r.ret)), acc.log \o r.log))

\* BGGBaseList.validate_xml(data), then validation of the root list
ValidateXml(listcls, data, clock) ==
    IF data.kind = "list"
    THEN BindItems(base_cls(listcls), data.val, clock, Outcome(PyList(<<>>), <<>>))
    ELSE Outcome(ValidationError, <<>>)

\* validation of one raw value against the declared type of a field
Coerce(ty, v, clock) ==
    CASE ty = "int" ->
            Outcome(IF v.kind = "str" /\ IsIntStr(v.val) THEN PyInt(ParseInt(v.val))
                    ELSE ValidationError, <<>>)
      [] ty = "str" -> Outcome(IF v.kind = "str" THEN v ELSE ValidationError, <<>>)
      [] ty = "BGGGameType" ->
            Outcome(IF v.kind = "str" /\ Len(v.val) = 1 /\ v.val[1] \in BGGGameType
                    THEN v ELSE ValidationError, <<>>)
      [] ty = "BGGLinkType" ->
            Outcome(IF v.kind = "str" /\ Len(v.val) = 1 /\ v.val[1] \in BGGLinkType
                    THEN v ELSE ValidationError, <<>>)
      [] ty = "HttpUrl" ->
            Outcome(IF v.kind = "str" /\ IsHttpUrl(v.val) THEN PyUrl(v.val)
                    ELSE ValidationError, <<>>)
      [] ty = "datetime" ->
            Outcome(IF v.kind = "str" /\ IsIntStr(v.val) THEN PyDatetime(ParseInt(v.val))
                    ELSE ValidationError, <<>>)
      [] ty \in ListTypes -> ValidateXml(ty, v, clock)
      [] OTHER -> Outcome(ValidationError, <<>>)

\* a validation that takes None for any field without a value
ValidateFieldNoneForMissing(f, d, clock) ==
    IF FieldAlias(f) \in DOMAIN d THEN Coerce(f.type, d[FieldAlias(f)], clock)
    ELSE Outcome(None, <<>>)

\* a validation whose default_factory does not read the clock
ValidateFieldFixedDefault(f, d, clock) ==
    IF FieldAlias(f) \in DOMAIN d THEN Coerce(f.type, d[FieldAlias(f)], clock)
    ELSE IF f.default = Required THEN Outcome(ValidationError, <<>>)
    ELSE IF f.default = DefaultFactory THEN Outcome(PyDatetime(0), <<>>)
    ELSE Outcome(f.default, <<>>)

\* validation of one field: the value under its alias, else its default
ValidateField(f, d, clock) ==
    IF FieldAlias(f) \in DOMAIN d THEN Coerce(f.type, d[FieldAlias(f)], clock)
    ELSE IF f.default = Required THEN Outcome(ValidationError, <<>>)
    ELSE IF f.default = DefaultFactory THEN Outcome(PyDatetime(clock), <<>>)
    ELSE Outcome(f.default, <<>>)

\* validation of the fields in order; every field is validated, and one
\* failure fails the record
RECURSIVE ValidateFields(_, _, _, _)
ValidateFields(fields, d, clock, acc) ==
    IF fields = <<>> THEN acc
    ELSE LET f == Head(fields)
             o == ValidateField(f, d, clock)
         IN ValidateFields(Tail(fields), d, clock,
                [vals |-> DictSet(acc.vals, f.name, o.ret),
                 ok |-> acc.ok /\ ~Failed(o),
                 log |-> acc.log \o o.log])

\* cls.model_validate(d): the record, or ValidationError
ModelValidate(cls, d, clock) ==
    LET r == ValidateFields(model_fields(cls), d, clock,
                            [vals |-> EmptyDict, ok |-> TRUE, log |-> <<>>])
    IN Outcome(IF r.ok THEN PyModel(r.vals) ELSE ValidationError, r.log)

\* BGGBaseModel.from_xml(xml_elem): the value map, the record or the
\* ValidationError, and the warnings logged
FromXml(cls, e, clock) ==
    LET b == BindFields(model_fields(cls), e, [dict |-> EmptyDict, log |-> <<>>])
        v == ModelValidate(cls, b.dict, clock)
    IN [dict |-> b.dict, ret |-> v.ret, log |-> b.log \o v.log]

-----------------------------------------------------------------------------
(* Extraction: _get_xml_value applied to an element of a parsed document. *)

\* Element.text of a parsed element: None, or text with or without blanks
Texts == {None, PyStr(<<" ">>), PyStr(<<"other">>), PyStr(<<" ", "other", " ">>)}

\* tags probed and carried by the children
ProbeTags == {"type", "link"}

\* the attribute maps of the children: a value attribute or none
LeafAttribs == {EmptyDict} \cup {[k \in {"value"} |-> <<w>>] : w \in {"val"}}

Leaves == {Element(t, a, x, <<>>) : t \in ProbeTags, a \in LeafAttribs, x \in Texts}

\* the attribute maps of the parent
ParentAttribs ==
    {EmptyDict} \cup {[k \in {"type"} |-> v] : v \in {<<"boardgame">>, <<>>}}

Documents ==
    {Element("item", a, None, c) : a \in ParentAttribs, c \in SeqUpTo(Leaves, MaxChildren)}

Init ==
    /\ xml_elem \in Documents
    /\ op = "start"
    /\ tag = ""
    /\ strategy = ""
    /\ result = None
    /\ full_dict = EmptyDict
    /\ log = <<>>
    /\ now = 0
    /\ previous = None
    /\ RuntimeIdle

\* a call of cls._get_xml_value(xml_elem, t, s)
CallGetXmlValue(t, s) ==
    /\ op = "start"
    /\ op' = "_get_xml_value"
    /\ tag' = t
    /\ strategy' = s
    /\ result' = GetXmlValue(xml_elem, t, s)
    /\ UNCHANGED <<xml_elem, full_dict, log, now, previous>>
    /\ UNCHANGED runtime

Next == \E t \in ProbeTags, s \in XMLLookupStrategy : CallGetXmlValue(t, s)

Spec == Init /\ [][Next]_vars

-----------------------------------------------------------------------------
(* Extraction under AUTO alone, from elements whose children may carry an   *)
(* empty value attribute.                                                   *)

\* the attribute maps of the children: no value attribute, value="val" or
\* value=""
AutoLeafAttribs == {EmptyDict} \cup {[k \in {"value"} |-> w] : w \in {<<"val">>, <<>>}}

\* Element.text of a parsed child: None, whitespace only, or padded text
AutoTexts == {None, PyStr(<<" ">>), PyStr(<<" ", "other", " ">>)}

AutoLeaves == {Element(t, a, x, <<>>) : t \in ProbeTags, a \in AutoLeafAttribs, x \in AutoTexts}

AutoDocuments ==
    {Element("item", a, None, c) : a \in ParentAttribs, c \in SeqUpTo(AutoLeaves, MaxChildren)}

InitAuto ==
    /\ xml_elem \in AutoDocuments
    /\ op = "start"
    /\ tag = ""
    /\ strategy = ""
    /\ result = None
    /\ full_dict = EmptyDict
    /\ log = <<>>
    /\ now = 0
    /\ previous = None
    /\ RuntimeIdle

NextAuto == \E t \in ProbeTags : CallGetXmlValue(t, AUTO)

SpecAuto == InitAuto /\ [][NextAuto]_vars

-----------------------------------------------------------------------------
(* Binding a game: BGGGame.from_xml applied to an <item> of a response.    *)

Attribs3(k1, v1, k2, v2, k3, v3) ==
    [k \in {k1, k2, k3} |-> IF k = k1 THEN v1 ELSE IF k = k2 THEN v2 ELSE v3]

\* <name type=.. value=.. sortindex=../>, the last without its sortindex
GameNames ==
    { Element("name", Attribs3("type", <<"primary">>, "value", <<"Wingspan">>,
                               "sortindex", <<"1">>), None, <<>>),
      Element("name", Attribs3("type", <<"alternate">>, "value", <<"Fluegel">>,
                               "sortindex", <<"2">>), None, <<>>),
      Element("name", Attribs3("type", <<"alternate">>, "value", <<"Fluegel">>,
                               "type", <<"alternate">>), None, <<>>) }

\* <link type=.. id=.. value=../>
GameLinks ==
    { Element("link", Attribs3("type", <<"boardgamecategory">>, "id", <<"1", "0">>,
                               "value", <<"Animals">>), None, <<>>),
      Element("link", Attribs3("type", <<"boardgamemechanic">>, "id", <<"1", "1">>,
                               "value", <<"Dice">>), None, <<>>) }

IntChildTags ==
    {"yearpublished", "minplayers", "maxplayers", "playingtime", "minplaytime",
     "maxplaytime", "minage"}

\* <minplayers value="3"/> and its like
GameNumbers == {Element(t, [k \in {"value"} |-> <<"3">>], None, <<>>) : t \in IntChildTags}

\* <description>..</description>, with text and without
GameTexts ==
    { Element("description", EmptyDict, PyStr(<<"A", " ", "game">>), <<>>),
      Element("description", EmptyDict, None, <<>>) }

GameLeaves == GameNames \cup GameLinks \cup GameNumbers \cup GameTexts

\* the attributes of the <item>: complete, with one more attribute, without
\* an id, with an id that is no number, without a type
GameAttribs ==
    { Attribs3("id", <<"7">>, "type", <<"boardgame">>, "id", <<"7">>),
      Attribs3("id", <<"7">>, "type", <<"boardgame">>, "minplayers", <<"2">>),
      Attribs3("type", <<"boardgame">>, "type", <<"boardgame">>, "type", <<"boardgame">>),
      Attribs3("id", <<"x">>, "type", <<"boardgame">>, "id", <<"x">>),
      Attribs3("id", <<"7">>, "id", <<"7">>, "id", <<"7">>) }

GameDocuments ==
    {Element("item", a, None, c) : a \in GameAttribs, c \in SeqUpTo(GameLeaves, MaxGameChildren)}

\* the instants at which a bind may run
Clock == {1, 2}

InitGame ==
    /\ xml_elem \in GameDocuments
    /\ op = "start"
    /\ tag = ""
    /\ strategy = ""
    /\ result = None
    /\ full_dict = EmptyDict
    /\ log = <<>>
    /\ now \in Clock
    /\ previous = None
    /\ RuntimeIdle

\* a call of cls.from_xml(xml_elem)
CallFromXml(cls) ==
    /\ op = "start"
    /\ op' = "from_xml"
    /\ LET r == FromXml(cls, xml_elem, now)
       IN /\ result' = r.ret
          /\ full_dict' = r.dict
          /\ log' = log \o r.log
    /\ UNCHANGED <<xml_elem, tag, strategy, now, previous>>
    /\ UNCHANGED runtime

NextGame == CallFromXml("BGGGame")

SpecGame == InitGame /\ [][NextGame]_vars

\* the clock moves on
Tick ==
    /\ now' \in Clock
    /\ now' > now
    /\ UNCHANGED <<xml_elem, op, tag, strategy, result, full_dict, log, previous>>
    /\ UNCHANGED runtime

\* a second call of cls.from_xml on the same element
CallFromXmlAgain(cls) ==
    /\ op = "from_xml"
    /\ op' = "from_xml_again"
    /\ previous' = result
    /\ LET r == FromXml(cls, xml_elem, now)
       IN /\ result' = r.ret
          /\ full_dict' = r.dict
          /\ log' = r.log
    /\ UNCHANGED <<xml_elem, tag, strategy, now>>
    /\ UNCHANGED runtime

NextAgain ==
    \/ CallFromXml("BGGGame")
    \/ Tick
    \/ CallFromXmlAgain("BGGGame")

SpecAgain == InitGame /\ [][NextAgain]_vars

\* str(n) of an int that is not negative: its decimal digits
RECURSIVE str_of_int(_)
str_of_int(n) ==
    LET digit(d) == CHOOSE c \in Digits : DigitVal(c) = d
    IN IF n < 10 THEN <<digit(n)>> ELSE Append(str_of_int(n \div 10), digit(n % 10))

\* a primary_name that takes the last primary entry
primary_name_last(game) ==
    LET primary == SelectSeq(game.val["names"].val,
                             LAMBDA n : n.val["name_type"] = PyStr(<<"primary">>))
    IN IF primary # <<>> THEN primary[Len(primary)].val["value"]
       ELSE PyStr(str_of_int(game.val["id"].val))

\* BGGGame.primary_name: next((n for n in self.names if n.name_type ==
\* "primary"), None), then primary.value if primary else str(self.id)
primary_name(game) ==
    LET primary == SelectSeq(game.val["names"].val,
                             LAMBDA n : n.val["name_type"] = PyStr(<<"primary">>))
    IN IF primary # <<>> THEN Head(primary).val["value"]
       ELSE PyStr(str_of_int(game.val["id"].val))

\* <name> children: two primary names and an alternate one
PrimaryNames ==
    { Element("name", Attribs3("type", <<"primary">>, "value", <<"Wingspan">>,
                               "sortindex", <<"1">>), None, <<>>),
      Element("name", Attribs3("type", <<"primary">>, "value", <<"Gloomhaven">>,
                               "sortindex", <<"2">>), None, <<>>),
      Element("name", Attribs3("type", <<"alternate">>, "value", <<"Fluegel">>,
                               "sortindex", <<"3">>), None, <<>>) }

\* the attributes of the <item>: ids of one digit, of two, and with a
\* leading zero
NameAttribs ==
    { Attribs3("id", i, "type", <<"boardgame">>, "id", i) :
        i \in {<<"7">>, <<"1", "0">>, <<"0", "7">>} }

NameDocuments ==
    {Element("item", a, None, c) : a \in NameAttribs, c \in SeqUpTo(PrimaryNames, MaxNames)}

InitName ==
    /\ xml_elem \in NameDocuments
    /\ op = "start"
    /\ tag = ""
    /\ strategy = ""
    /\ result = None
    /\ full_dict = EmptyDict
    /\ log = <<>>
    /\ now = 1
    /\ previous = None
    /\ RuntimeIdle

\* a read of game.primary_name on the record a bind returned
CallPrimaryName ==
    /\ op = "from_xml"
    /\ result.kind = "model"
    /\ op' = "primary_name"
    /\ previous' = result
    /\ result' = primary_name(result)
    /\ UNCHANGED <<xml_elem, tag, strategy, full_dict, log, now>>
    /\ UNCHANGED runtime

NextName ==
    \/ CallFromXml("BGGGame")
    \/ CallPrimaryName

SpecName == InitName /\ [][NextName]_vars

\* self.links.filter(link_type=t): the links of that type, in list order
FilterLinkType(links, t) ==
    PyList(SelectSeq(links.val, LAMBDA l : l.val["link_type"] = PyStr(<<t>>)))

\* BGGGame.categories
categories(game) == FilterLinkType(game.val["links"], CATEGORY)

-----------------------------------------------------------------------------
(* Binding a list: BGGNameList / BGGLinkList validated from the children   *)
(* an element was searched for.                                            *)

ListNames ==
    GameNames \cup
    { Element("name", Attribs3("type", <<"primary">>, "value", <<"Wingspan">>,
                               "sortindex", <<"x">>), None, <<>>) }

\* <item> elements of a response: complete, with a <name> child, without id
ListItems ==
    { Element("item", Attribs3("id", <<"7">>, "type", <<"boardgame">>, "id", <<"7">>),
              None, <<>>),
      Element("item", Attribs3("id", <<"8">>, "type", <<"boardgame">>, "id", <<"8">>),
              None,
              <<Element("name", Attribs3("type", <<"primary">>, "value", <<"Wingspan">>,
                                         "sortindex", <<"1">>), None, <<>>)>>),
      Element("item", Attribs3("type", <<"boardgame">>, "type", <<"boardgame">>,
                               "type", <<"boardgame">>), None, <<>>) }

ListLeaves == ListNames \cup GameLinks \cup ListItems

ListDocuments ==
    {Element("items", EmptyDict, None, c) : c \in SeqUpTo(ListLeaves, MaxItems)}

InitList ==
    /\ xml_elem \in ListDocuments
    /\ op = "start"
    /\ tag = ""
    /\ strategy = ""
    /\ result = None
    /\ full_dict = EmptyDict
    /\ log = <<>>
    /\ now = 1
    /\ previous = None
    /\ RuntimeIdle

\* a call of listcls.model_validate(xml_elem.findall(t))
CallValidateXml(listcls, t) ==
    /\ op = "start"
    /\ op' = "validate_xml"
    /\ tag' = t
    /\ LET r == ValidateXml(listcls, PyList(ElemFindAll(xml_elem, t)), now)
       IN /\ result' = r.ret
          /\ log' = log \o r.log
    /\ UNCHANGED <<xml_elem, strategy, full_dict, now, previous>>
    /\ UNCHANGED runtime

\* get_thing: for item_elem in root.findall("item"): games.append(
\* BGGGame.from_xml(item_elem)); the first item that raises ends the call
RECURSIVE GetThingItems(_, _, _)
GetThingItems(items, clock, acc) ==
    IF items = <<>> THEN acc
    ELSE LET r == FromXml("BGGGame", Head(items), clock)
         IN IF Failed(r) THEN Outcome(ValidationError, acc.log \o r.log)
            ELSE GetThingItems(Tail(items), clock,
                     Outcome(PyList(Append(acc.ret.val, r.ret)), acc.log \o r.log))

\* the part of BGGClient.get_thing that binds a parsed response
CallGetThing ==
    /\ op = "start"
    /\ op' = "get_thing"
    /\ tag' = "item"
    /\ LET r == GetThingItems(ElemFindAll(xml_elem, "item"), now, Outcome(PyList(<<>>), <<>>))
       IN /\ result' = r.ret
          /\ log' = log \o r.log
    /\ UNCHANGED <<xml_elem, strategy, full_dict, now, previous>>
    /\ UNCHANGED runtime

NextList ==
    \/ CallValidateXml("BGGNameList", "name")
    \/ CallValidateXml("BGGLinkList", "link")
    \/ CallGetThing

SpecList == InitList /\ [][NextList]_vars

-----------------------------------------------------------------------------
(* Binding a record type whose fields store an arbitrary strategy token.   *)

\* a call of TokenModel.from_xml(xml_elem), the fields declared with token
CallFromXmlToken(token) ==
    /\ op = "start"
    /\ op' = "from_xml"
    /\ strategy' = token
    /\ LET r == FromXml(TokenClass(token), xml_elem, now)
       IN /\ result' = r.ret
          /\ full_dict' = r.dict
          /\ log' = log \o r.log
    /\ UNCHANGED <<xml_elem, tag, now, previous>>
    /\ UNCHANGED runtime

NextToken == \E token \in StoredTokens : CallFromXmlToken(token)

SpecToken == Init /\ [][NextToken]_vars

-----------------------------------------------------------------------------
(* with_retry: the wrapper around an awaited function.  Delays are counted  *)
(* in units of 1/UnitsPerSecond seconds, so that a backoff factor of half a *)
(* second is a whole number.                                                *)

UnitsPerSecond == 2

Seconds(n) == n * UnitsPerSecond

\* base_delay of the sleep that follows a RateLimitError, in seconds
RateLimitBaseDelay == 5

\* what one awaited call of the wrapped function does: it returns, raises
\* RateLimitError, or raises another Exception
FuncOutcomes == {"ok", "RateLimitError", "Exception"}

\* the backoff factors a wrapper is built with, none of them negative
BackoffFactors == {0, 1, 2, 3}

\* a delay without the base delay
get_delay_no_base(attempt, backoff_factor, base_delay) == backoff_factor * (2 ^ attempt)

\* get_delay(attempt, backoff_factor, base_delay=...)
get_delay(attempt, backoff_factor, base_delay) ==
    base_delay + backoff_factor * (2 ^ attempt)

\* except branches that sleep after the last attempt too
ExceptSleepAlways(r, e) ==
    [r EXCEPT !.pc = "sleep", !.exc = e,
              !.sleeps = Append(@, [attempt |-> r.attempt, after |-> e,
                                    delay |-> get_delay(r.attempt, r.backoff_factor, 0)])]

\* the except branches of the wrapper: with attempts left the delay is
\* computed and slept, otherwise the exception is raised again
Except(r, e) ==
    LET base_delay == IF e = "RateLimitError" THEN Seconds(RateLimitBaseDelay) ELSE 0
        delay == get_delay(r.attempt, r.backoff_factor, base_delay)
    IN IF r.attempt < r.max_retries
       THEN [r EXCEPT !.pc = "sleep", !.exc = e,
                      !.sleeps = Append(@, [attempt |-> r.attempt, after |-> e,
                                            delay |-> delay])]
       ELSE [r EXCEPT !.pc = "raised", !.exc = e]

\* one pass of the loop body: try: return await func(...), then the except
\* branch that matches
Attempt(r, outcome) ==
    LET r1 == [r EXCEPT !.outcomes = Append(@, outcome)]
    IN IF outcome = "ok" THEN [r1 EXCEPT !.pc = "returned"] ELSE Except(r1, outcome)

\* a wrapper about to enter its loop
RetryCall(n, b) ==
    [RetryIdle EXCEPT !.pc = "call", !.max_retries = n, !.backoff_factor = b]

\* the binding layer at rest
BindingIdle ==
    /\ xml_elem = Element("item", EmptyDict, None, <<>>)
    /\ op = "start"
    /\ tag = ""
    /\ strategy = ""
    /\ result = None
    /\ full_dict = EmptyDict
    /\ log = <<>>
    /\ previous = None

InitRetry ==
    /\ BindingIdle
    /\ now = 0
    /\ retry \in {RetryCall(n, b) : n \in (-1)..MaxRetries, b \in BackoffFactors}
    /\ cache_enabled = TRUE
    /\ files = NoFiles
    /\ cache_call = CacheIdle
    /\ ClientIdle
    /\ logging = LoggingConfigured

\* the wrapped function is awaited and returns or raises
RetryAttempt(outcome) ==
    /\ retry.pc = "call"
    /\ retry.attempt <= retry.max_retries
    /\ retry' = Attempt(retry, outcome)
    /\ UNCHANGED <<binding, now, cacheVars, clientVars, loggingVars>>

\* asyncio.sleep(delay) is over: the loop goes to its next attempt
RetryWake ==
    /\ retry.pc = "sleep"
    /\ retry' = [retry EXCEPT !.pc = "call", !.attempt = @ + 1]
    /\ UNCHANGED <<binding, now, cacheVars, clientVars, loggingVars>>

\* the loop is left without a return or a raise: raise last_exception or
\* RuntimeError
RetryExhausted ==
    /\ retry.pc = "call"
    /\ retry.attempt > retry.max_retries
    /\ retry' = [retry EXCEPT !.pc = "raised",
                              !.exc = IF @ = "none" THEN "RuntimeError" ELSE @]
    /\ UNCHANGED <<binding, now, cacheVars, clientVars, loggingVars>>

NextRetry ==
    \/ \E outcome \in FuncOutcomes : RetryAttempt(outcome)
    \/ RetryWake
    \/ RetryExhausted

SpecRetry == InitRetry /\ [][NextRetry]_vars

-----------------------------------------------------------------------------
(* FileCache: one file per key in the cache directory.  A file holds a     *)
(* pickled PickleData, or bytes that are none: the digest that names the    *)
(* file is taken to be free of collisions.                                  *)

\* the content of a cache file
File(k, v, e) == [kind |-> k, value |-> v, expires_at |-> e]

\* PickleData(value=value, expires_at=expires_at), pickled
PickleData(value, expires_at) == File("PickleData", value, expires_at)

\* files that hold no pickled PickleData: zero bytes; a pickle cut short; a
\* pickle with an opcode argument that does not parse; a pickle of another
\* object; a file that may not be opened
CorruptKinds == {"empty", "truncated", "bad_argument", "other_object", "unreadable"}

\* PickleData.load(file): the data, or the exception raised by file.open,
\* by pickle.load, or by the isinstance test
PickleDataLoad(content) ==
    CASE content.kind = "PickleData" -> [raise |-> "none", data |-> content]
      [] content.kind = "unreadable" -> [raise |-> "PermissionError", data |-> None]
      [] content.kind = "empty" -> [raise |-> "EOFError", data |-> None]
      [] content.kind = "truncated" -> [raise |-> "UnpicklingError", data |-> None]
      [] content.kind = "bad_argument" -> [raise |-> "ValueError", data |-> None]
      [] content.kind = "other_object" -> [raise |-> "TypeError", data |-> None]

\* an expiry that sets in at the expiry instant itself
is_expired_at_instant(data, clock) == clock >= data.expires_at

\* PickleData.is_expired: now > expires_at
is_expired(data, clock) == clock > data.expires_at

\* hashlib.md5(key.encode()).hexdigest()
md5_hexdigest(key) == <<"md5", key>>

\* FileCache._get_cache_path(key)
get_cache_path(key) == <<".cache", md5_hexdigest(key), ".cache">>

\* cache_path.unlink(missing_ok=True)
Unlink(fs, path) == [q \in (DOMAIN fs) \ {path} |-> fs[q]]

\* what a FileCache method did: its return value, the exception that left
\* it, and the directory afterwards
Done(r, x, fs) == [ret |-> r, raise |-> x, files |-> fs]

\* FileCache.get(key) at the instant clock
FileCacheGet(enabled, fs, key, clock) ==
    LET cache_path == get_cache_path(key)
    IN IF ~enabled THEN Done(None, "none", fs)
       ELSE IF cache_path \notin DOMAIN fs THEN Done(None, "none", fs)
       ELSE LET l == PickleDataLoad(fs[cache_path])
            IN IF l.raise = "none"
               THEN (IF is_expired(l.data, clock)
                     THEN Done(None, "none", Unlink(fs, cache_path))
                     ELSE Done(l.data.value, "none", fs))
               ELSE IF l.raise \in {"UnpicklingError", "EOFError", "FileNotFoundError"}
                    THEN Done(None, "none", Unlink(fs, cache_path))
               ELSE Done(None, l.raise, fs)

\* FileCache.set(key, value, ttl) at the instant clock; dumped tells whether
\* data.dump wrote the file or raised OSError
FileCacheSet(enabled, fs, key, value, ttl, clock, dumped) ==
    LET cache_path == get_cache_path(key)
        expires_at == clock + ttl
    IN IF ~enabled THEN Done(None, "none", fs)
       ELSE IF dumped
            THEN Done(None, "none",
                      [q \in (DOMAIN fs) \cup {cache_path} |->
                          IF q = cache_path THEN PickleData(value, expires_at) ELSE fs[q]])
       ELSE Done(None, "RuntimeError", Unlink(fs, cache_path))

\* FileCache.clear()
FileCacheClear(fs) == Done(None, "none", NoFiles)

\* keys, values and times to live the cache is used with
Keys == {"k1", "k2"}
Values == {PyStr(<<"v1">>), PyStr(<<"v2">>)}
TTLs == {0, 1}

InitCache ==
    /\ BindingIdle
    /\ now = 0
    /\ retry = RetryIdle
    /\ cache_enabled \in BOOLEAN
    /\ files = NoFiles
    /\ cache_call = CacheIdle
    /\ ClientIdle
    /\ logging = LoggingConfigured

\* the content of the file of a key, None when there is no file
Content(fs, key) ==
    IF get_cache_path(key) \in DOMAIN fs THEN fs[get_cache_path(key)] ELSE None

\* the record of a call: its arguments, the instant, the content of the
\* file of the key before the call, and what the call did
Called(o, key, value, ttl, d) ==
    [op |-> o, key |-> key, value |-> value, ttl |-> ttl, at |-> now,
     before |-> Content(files, key), ret |-> d.ret, raise |-> d.raise]

\* a call of cache.get(key)
CacheGet(key) ==
    /\ LET d == FileCacheGet(cache_enabled, files, key, now)
       IN /\ files' = d.files
          /\ cache_call' = Called("get", key, None, 0, d)
    /\ UNCHANGED <<binding, now, retry, cache_enabled, clientVars, loggingVars>>

\* a call of cache.set(key, value, ttl)
CacheSet(key, value, ttl, dumped) ==
    /\ LET d == FileCacheSet(cache_enabled, files, key, value, ttl, now, dumped)
       IN /\ files' = d.files
          /\ cache_call' = Called("set", key, value, ttl, d)
    /\ UNCHANGED <<binding, now, retry, cache_enabled, clientVars, loggingVars>>

\* a call of cache.clear()
CacheClear ==
    /\ files # NoFiles
    /\ LET d == FileCacheClear(files)
       IN /\ files' = d.files
          /\ cache_call' = Called("clear", "", None, 0, d)
    /\ UNCHANGED <<binding, now, retry, cache_enabled, clientVars, loggingVars>>

\* the file of a key is damaged from outside the program
Damage(key, kind) ==
    /\ get_cache_path(key) \in DOMAIN files
    /\ files' = [files EXCEPT ![get_cache_path(key)] = File(kind, None, 0)]
    /\ UNCHANGED <<binding, now, retry, cache_enabled, cache_call, clientVars, loggingVars>>

\* the clock moves on
TickCache ==
    /\ now < MaxTime
    /\ now' = now + 1
    /\ UNCHANGED <<binding, retry, cacheVars, clientVars, loggingVars>>

NextCache ==
    \/ \E key \in Keys : CacheGet(key)
    \/ \E key \in Keys, value \in Values, ttl \in TTLs, dumped \in BOOLEAN :
          CacheSet(key, value, ttl, dumped)
    \/ CacheClear
    \/ \E key \in Keys, kind \in CorruptKinds : Damage(key, kind)
    \/ TickCache

SpecCache == InitCache /\ [][NextCache]_vars

-----------------------------------------------------------------------------
(* cached_request around BGGClient.get_thing.  hash() of a str is salted   *)
(* per process and taken to be free of collisions within one.               *)

\* settings.cache_ttl, in seconds
CacheTtl == 3600

\* client instances: the process they live in and their address there
Clients ==
    { [process |-> "p1", addr |-> "0x7f01"],
      [process |-> "p1", addr |-> "0x7f02"],
      [process |-> "p2", addr |-> "0x7f01"] }

\* repr(self) of a client: the default object repr, which shows the address
repr_client(c) == <<"<bgg.clients.bgg.BGGClient object at ", c.addr, ">">>

\* the ways a caller passes include_stats: by position or by keyword
CallForms == {"positional", "keyword"}

\* args of the wrapper for a call of client.get_thing
ArgsOf(c, thing_ids, include_stats, form) ==
    IF form = "positional" THEN <<repr_client(c), thing_ids, include_stats>>
    ELSE <<repr_client(c), thing_ids>>

\* sorted(kwargs.items()) of the wrapper for that call
KwargsOf(c, thing_ids, include_stats, form) ==
    IF form = "keyword" THEN << <<"include_stats", include_stats>> >> ELSE <<>>

\* hash(text) in the process with that hash seed
hash(seed, text) == <<"hash", seed, text>>

\* cached_request: f"{func.__name__}:{hash(str(args) + str(sorted(kwargs.items())))}"
cache_key(func_name, seed, args, kwargs) == <<func_name, ":", hash(seed, <<args, kwargs>>)>>

\* get_thing: the query parameters of the outbound request
Params(thing_ids, include_stats) ==
    [id |-> thing_ids, type |-> "boardgame", stats |-> include_stats]

\* the games a response to that request parses to
Games(params) == [kind |-> "BGGGameList", val |-> params]

InitCached ==
    /\ BindingIdle
    /\ now = 0
    /\ RuntimeIdle

\* a call of client.get_thing through the wrapper of cached_request: a hit
\* returns the cached games; a miss runs get_thing, which issues its request
\* and either raises or returns the games, which are then stored
CallCachedGetThing(c, thing_ids, include_stats, form, ok) ==
    /\ Len(calls) < MaxCalls
    /\ LET key == cache_key("get_thing", c.process,
                            ArgsOf(c, thing_ids, include_stats, form),
                            KwargsOf(c, thing_ids, include_stats, form))
           params == Params(thing_ids, include_stats)
           cached_result == FileCacheGet(cache_enabled, files, key, now)
           call == [client |-> c, thing_ids |-> thing_ids,
                    include_stats |-> include_stats, form |-> form, key |-> key,
                    at |-> now, hit |-> FALSE, ret |-> None, raise |-> "none"]
       IN IF cached_result.raise # "none"
          THEN /\ calls' = Append(calls, [call EXCEPT !.raise = cached_result.raise])
               /\ files' = cached_result.files
               /\ UNCHANGED requests
          ELSE IF cached_result.ret # None
          THEN /\ calls' = Append(calls, [call EXCEPT !.hit = TRUE,
                                                      !.ret = cached_result.ret])
               /\ files' = cached_result.files
               /\ UNCHANGED requests
          ELSE IF ok
          THEN /\ calls' = Append(calls, [call EXCEPT !.ret = Games(params)])
               /\ files' = FileCacheSet(cache_enabled, cached_result.files, key,
                                        Games(params), CacheTtl, now, TRUE).files
               /\ requests' = Append(requests, [at |-> now, params |-> params])
          ELSE /\ calls' = Append(calls, [call EXCEPT !.raise = "APIError"])
               /\ files' = cached_result.files
               /\ requests' = Append(requests, [at |-> now, params |-> params])
    /\ UNCHANGED <<binding, now, retry, cache_enabled, cache_call, tasks, loggingVars>>

\* the ids and the include_stats flags get_thing is called with
ThingIds == {PyInt(1), PyInt(2)}

NextCached ==
    \E c \in Clients, thing_ids \in ThingIds, include_stats \in BOOLEAN,
       form \in CallForms, ok \in BOOLEAN :
        CallCachedGetThing(c, thing_ids, include_stats, form, ok)

SpecCached == InitCached /\ [][NextCached]_vars

-----------------------------------------------------------------------------
(* BGGClient.get_thing as coroutines on one event loop: the rate-limit     *)
(* sleep, then BaseHTTPClient.get inside the wrapper of with_retry.  A      *)
(* sleep ends at its wake-up instant or later; a response arrives at the    *)
(* instant of its request or later.                                         *)

\* settings.bgg_rate_limit_delay, in seconds
RateLimitDelay == 2

\* the coroutines started together on one client, as asyncio.gather does
Tasks == {"t1", "t2"}

\* a coroutine that has not run yet; its wrapper is built with
\* settings.max_retries and settings.retry_backoff_factor (half a second)
NewTask ==
    [pc |-> "new", wake |-> 0, r |-> RetryCall(MaxRetries, UnitsPerSecond \div 2)]

InitClient ==
    /\ BindingIdle
    /\ now = 0
    /\ retry = RetryIdle
    /\ cache_enabled = TRUE
    /\ files = NoFiles
    /\ cache_call = CacheIdle
    /\ calls = <<>>
    /\ requests = <<>>
    /\ tasks = [t \in Tasks |-> NewTask]
    /\ logging = LoggingConfigured

\* get_thing runs up to await self._rate_limit_delay():
\* asyncio.sleep(settings.bgg_rate_limit_delay)
TaskStart(t) ==
    /\ tasks[t].pc = "new"
    /\ tasks' = [tasks EXCEPT ![t].pc = "rate_sleep",
                              ![t].wake = now + Seconds(RateLimitDelay)]
    /\ UNCHANGED <<binding, now, retry, cacheVars, calls, requests, loggingVars>>

\* the sleep is over: self.get(...) enters the wrapper, whose attempt
\* issues the request through self._client.get
TaskSend(t) ==
    /\ tasks[t].pc \in {"rate_sleep", "retry_sleep"}
    /\ now >= tasks[t].wake
    /\ tasks' = [tasks EXCEPT
                    ![t].pc = "awaiting",
                    ![t].r = IF tasks[t].pc = "retry_sleep"
                             THEN [@ EXCEPT !.pc = "call", !.attempt = @ + 1]
                             ELSE @]
    /\ requests' = Append(requests, [at |-> now, task |-> t])
    /\ UNCHANGED <<binding, now, retry, cacheVars, calls, loggingVars>>

\* the response arrives: the attempt returns or raises, and the wrapper
\* returns, raises, or starts the sleep before its next attempt
TaskReceive(t, outcome) ==
    /\ tasks[t].pc = "awaiting"
    /\ LET r == Attempt(tasks[t].r, outcome)
       IN tasks' = [tasks EXCEPT
                       ![t].r = r,
                       ![t].pc = CASE r.pc = "returned" -> "done"
                                   [] r.pc = "raised" -> "failed"
                                   [] r.pc = "sleep" -> "retry_sleep",
                       ![t].wake = IF r.pc = "sleep"
                                   THEN now + r.sleeps[Len(r.sleeps)].delay
                                   ELSE @]
    /\ UNCHANGED <<binding, now, retry, cacheVars, calls, requests, loggingVars>>

\* the clock of the event loop moves on
TickClient ==
    /\ now < Horizon
    /\ now' = now + 1
    /\ UNCHANGED <<binding, retry, cacheVars, clientVars, loggingVars>>

NextClient ==
    \/ \E t \in Tasks : TaskStart(t)
    \/ \E t \in Tasks : TaskSend(t)
    \/ \E t \in Tasks, outcome \in FuncOutcomes : TaskReceive(t, outcome)
    \/ TickClient

SpecClient == InitClient /\ [][NextClient]_vars

-----------------------------------------------------------------------------
(* Settings.setup_logging called from several threads on the one Settings  *)
(* instance of the program.  A thread runs one statement at a time.         *)

Threads == {"th1", "th2", "th3"}

\* the handlers the root logger may hold before it is configured
HandlersBefore == {<<>>, <<"other">>}

\* a lock that any thread may take at any time
CanAcquireUnlocked(l, t) == TRUE

\* with self.logging_lock: the lock can be taken when no thread holds it
CanAcquire(l, t) == l.lock = "free"

InitLogging ==
    /\ BindingIdle
    /\ now = 0
    /\ retry = RetryIdle
    /\ cache_enabled = TRUE
    /\ files = NoFiles
    /\ cache_call = CacheIdle
    /\ ClientIdle
    /\ logging \in {[lock |-> "free", configured |-> FALSE, handlers |-> h, runs |-> 0,
                      pc |-> [t \in Threads |-> "idle"],
                      made |-> [t \in Threads |-> 0]] : h \in HandlersBefore}

\* a thread calls setup_logging and enters the with block
Acquire(t) ==
    /\ logging.pc[t] = "idle"
    /\ logging.made[t] < MaxSetupCalls
    /\ CanAcquire(logging, t)
    /\ logging' = [logging EXCEPT !.lock = t, !.pc[t] = "check"]
    /\ UNCHANGED <<binding, now, retry, cacheVars, clientVars>>

\* if self._logging_configured: return
Check(t) ==
    /\ logging.pc[t] = "check"
    /\ logging' = [logging EXCEPT
                      !.pc[t] = IF logging.configured THEN "release" ELSE "remove"]
    /\ UNCHANGED <<binding, now, retry, cacheVars, clientVars>>

\* for handler in root_logger.handlers[:]: root_logger.removeHandler(handler)
RemoveHandlers(t) ==
    /\ logging.pc[t] = "remove"
    /\ logging' = [logging EXCEPT !.handlers = <<>>, !.runs = @ + 1, !.pc[t] = "add"]
    /\ UNCHANGED <<binding, now, retry, cacheVars, clientVars>>

\* root_logger.addHandler(console_handler) and the setLevel calls
AddHandler(t) ==
    /\ logging.pc[t] = "add"
    /\ logging' = [logging EXCEPT !.handlers = Append(@, "console"), !.pc[t] = "flag"]
    /\ UNCHANGED <<binding, now, retry, cacheVars, clientVars>>

\* self._logging_configured = True
SetConfigured(t) ==
    /\ logging.pc[t] = "flag"
    /\ logging' = [logging EXCEPT !.configured = TRUE, !.pc[t] = "release"]
    /\ UNCHANGED <<binding, now, retry, cacheVars, clientVars>>

\* the with block is left and the call returns
Release(t) ==
    /\ logging.pc[t] = "release"
    /\ logging' = [logging EXCEPT !.lock = IF @ = t THEN "free" ELSE @,
                                  !.pc[t] = "idle", !.made[t] = @ + 1]
    /\ UNCHANGED <<binding, now, retry, cacheVars, clientVars>>

NextLogging ==
    \E t \in Threads :
        \/ Acquire(t)
        \/ Check(t)
        \/ RemoveHandlers(t)
        \/ AddHandler(t)
        \/ SetConfigured(t)
        \/ Release(t)

SpecLogging == InitLogging /\ [][NextLogging]_vars

-----------------------------------------------------------------------------
(* Properties of extraction, stated on the element itself. *)

\* the positions of the direct children of the element that are named t
ChildrenNamed(t) == {i \in 1..Len(xml_elem.children) : xml_elem.children[i].tag = t}

\* the position of the first direct child named t
FirstNamed(t) == CHOOSE i \in ChildrenNamed(t) : \A j \in ChildrenNamed(t) : i <= j

\* the k-th direct child named t, in document order
NthNamed(t, k) ==
    xml_elem.children[CHOOSE i \in ChildrenNamed(t) :
                          Cardinality({j \in ChildrenNamed(t) : j < i}) = k - 1]

Extracted(s) == op = "_get_xml_value" /\ strategy = s

\* C1: under AUTO, an element that has both an attribute named tag and a
\* direct child named tag yields the value of the attribute.
C1_AutoAttributeWins ==
    (Extracted(AUTO) /\ tag \in DOMAIN xml_elem.attrib /\ ChildrenNamed(tag) # {})
        => result = PyStr(xml_elem.attrib[tag])

\* C1 witness: the attribute type="boardgame" beside a child <type> that
\* carries both a value attribute and text.
C1_Witness ==
    /\ Extracted(AUTO) /\ tag = "type"
    /\ "type" \in DOMAIN xml_elem.attrib /\ xml_elem.attrib["type"] = <<"boardgame">>
    /\ ChildrenNamed("type") # {}
    /\ "value" \in DOMAIN xml_elem.children[FirstNamed("type")].attrib
    /\ xml_elem.children[FirstNamed("type")].text = PyStr(<<"other">>)
    /\ result = PyStr(<<"boardgame">>)

\* the text of a child is blank: no text at all, or whitespace only
Blank(x) == x = None \/ strip(x.val) = <<>>

\* C7 as claimed: under TEXT, and under FIND for a child without a value
\* attribute, blank text yields None and other text is returned trimmed.
C7_BlankTextIsAbsent ==
    /\ (Extracted(TEXT) /\ ChildrenNamed(tag) # {}) =>
          LET x == xml_elem.children[FirstNamed(tag)].text
          IN result = IF Blank(x) THEN None ELSE PyStr(strip(x.val))
    /\ (Extracted(FIND) /\ ChildrenNamed(tag) # {}
          /\ "value" \notin DOMAIN xml_elem.children[FirstNamed(tag)].attrib) =>
          LET x == xml_elem.children[FirstNamed(tag)].text
          IN result = IF Blank(x) THEN None ELSE PyStr(strip(x.val))

\* C7 as the code has it: TEXT yields the text of the first child named tag
\* exactly as it stands, "" when the child has no text; FIND without a value
\* attribute yields the text exactly as it stands, None when there is none.
C7_RawText ==
    /\ (Extracted(TEXT) /\ ChildrenNamed(tag) # {}) =>
          LET x == xml_elem.children[FirstNamed(tag)].text
          IN result = IF x = None THEN PyStr(<<>>) ELSE x
    /\ (Extracted(TEXT) /\ ChildrenNamed(tag) = {}) => result = None
    /\ (Extracted(FIND) /\ ChildrenNamed(tag) # {}
          /\ "value" \notin DOMAIN xml_elem.children[FirstNamed(tag)].attrib) =>
          result = xml_elem.children[FirstNamed(tag)].text

\* C7 witness: whitespace-only text comes back as it is under TEXT.
C7_Witness ==
    /\ Extracted(TEXT) /\ ChildrenNamed(tag) # {}
    /\ xml_elem.children[FirstNamed(tag)].text = PyStr(<<" ">>)
    /\ result = PyStr(<<" ">>)

\* C8: under FIND the first direct child named tag decides: its value
\* attribute is the result whatever its text, and without such a child the
\* result is None even when the parent has an attribute named tag.
C8_FindFirstChild ==
    Extracted(FIND) =>
        IF ChildrenNamed(tag) = {} THEN result = None
        ELSE LET c == xml_elem.children[FirstNamed(tag)]
             IN "value" \in DOMAIN c.attrib => result = PyStr(c.attrib["value"])

\* C8 witness: the first child named tag has a value attribute and text, and
\* a later child named tag has neither.
C8_Witness ==
    /\ Extracted(FIND) /\ Cardinality(ChildrenNamed(tag)) = 2
    /\ "value" \in DOMAIN xml_elem.children[1].attrib
    /\ xml_elem.children[1].text = PyStr(<<" ", "other", " ">>)
    /\ "value" \notin DOMAIN xml_elem.children[2].attrib
    /\ tag \in DOMAIN xml_elem.attrib
    /\ result = PyStr(<<"val">>)

\* C9: under FINDALL the result is the list of all direct children named
\* tag, as elements, in document order; None when there is no such child.
C9_FindAllInOrder ==
    Extracted(FINDALL) =>
        IF ChildrenNamed(tag) = {} THEN result = None
        ELSE /\ result.kind = "list"
             /\ Len(result.val) = Cardinality(ChildrenNamed(tag))
             /\ \A k \in 1..Len(result.val) : result.val[k] = NthNamed(tag, k)

\* C9 witness: two different children named tag, returned in document order.
C9_Witness ==
    /\ Extracted(FINDALL) /\ Cardinality(ChildrenNamed(tag)) = 2
    /\ xml_elem.children[1] # xml_elem.children[2]
    /\ result = PyList(<<xml_elem.children[1], xml_elem.children[2]>>)

\* what the first direct child named t yields on its own: its value
\* attribute, else its trimmed text when that is not empty, else the child
FirstChildAlone(t) ==
    LET c == xml_elem.children[FirstNamed(t)]
    IN IF "value" \in DOMAIN c.attrib THEN PyStr(c.attrib["value"])
       ELSE IF ~Blank(c.text) THEN PyStr(strip(c.text.val))
       ELSE PyElem(c)

\* C21: under AUTO with no attribute named tag, a direct child named tag
\* makes the result what the first such child yields on its own (its value
\* attribute, else its trimmed non-empty text, else the child itself); AUTO
\* never returns a list of elements, however many children are named tag;
\* and the result is None exactly when the element has neither an attribute
\* nor a direct child named tag.
C21_AutoFirstChildAlone ==
    Extracted(AUTO) =>
        /\ (tag \notin DOMAIN xml_elem.attrib /\ ChildrenNamed(tag) # {})
              => result = FirstChildAlone(tag)
        /\ result.kind # "list"
        /\ result = None
              <=> (tag \notin DOMAIN xml_elem.attrib /\ ChildrenNamed(tag) = {})

\* C21 witness: no attribute named tag and two children named tag; the first
\* has no value attribute and only whitespace for text, the second has a
\* value attribute; the result is the first child, as an element.
C21_Witness ==
    /\ Extracted(AUTO) /\ tag \notin DOMAIN xml_elem.attrib
    /\ Cardinality(ChildrenNamed(tag)) = 2
    /\ "value" \notin DOMAIN xml_elem.children[1].attrib
    /\ xml_elem.children[1].text = PyStr(<<" ">>)
    /\ "value" \in DOMAIN xml_elem.children[2].attrib
    /\ result = PyElem(xml_elem.children[1])

\* the first child named tag carries value="" and text: the result is the
\* empty str, which is not None
C21_WitnessEmptyValue ==
    /\ Extracted(AUTO) /\ tag \notin DOMAIN xml_elem.attrib
    /\ ChildrenNamed(tag) # {}
    /\ "value" \in DOMAIN xml_elem.children[FirstNamed(tag)].attrib
    /\ xml_elem.children[FirstNamed(tag)].attrib["value"] = <<>>
    /\ xml_elem.children[FirstNamed(tag)].text = PyStr(<<" ", "other", " ">>)
    /\ result = PyStr(<<>>)

-----------------------------------------------------------------------------
(* Properties of binding a game. *)

Bound == op = "from_xml"

\* the fields of a schema, as a set
FieldsOf(schema) == {schema[i] : i \in 1..Len(schema)}

\* the field of the game schema declared under that name
GameField(n) == CHOOSE f \in FieldsOf(BGGGame) : f.name = n

\* the entries of a sequence, as a set
Range(q) == {q[i] : i \in 1..Len(q)}

\* how often x occurs in the sequence q
Count(q, x) == Cardinality({i \in 1..Len(q) : q[i] = x})

IntFields ==
    {"year_published", "min_players", "max_players", "playing_time", "min_playtime",
     "max_playtime", "min_age"}

\* C2 as claimed: a bound game has each of its seven numeric fields from the
\* value attribute of the same-named direct child, and id and game_type from
\* the attributes of the element.
C2_NumbersFromChildren ==
    (Bound /\ result.kind = "model") =>
        /\ result.val["id"] = PyInt(ParseInt(xml_elem.attrib["id"]))
        /\ result.val["game_type"] = PyStr(xml_elem.attrib["type"])
        /\ \A n \in IntFields :
              ChildrenNamed(flatcase(n)) # {} =>
                  result.val[n] =
                      PyInt(ParseInt(xml_elem.children[FirstNamed(flatcase(n))].attrib["value"]))

\* C3 as claimed: a bound game holds one link record per <link> child, in
\* document order, and categories holds every category link among them.
C3_LinksFromChildren ==
    (Bound /\ result.kind = "model") =>
        /\ Len(result.val["links"].val) = Cardinality(ChildrenNamed("link"))
        /\ \A k \in 1..Len(result.val["links"].val) :
              result.val["links"].val[k].val["value"] =
                  PyStr(NthNamed("link", k).attrib["value"])
        /\ Len(categories(result).val) =
              Cardinality({i \in ChildrenNamed("link") :
                              xml_elem.children[i].attrib["type"] = <<CATEGORY>>})

\* the attribute fields of the game schema whose tag the element lacks
MissingAttributeFields ==
    {f \in FieldsOf(BGGGame) :
        f.lookup_strategy = ATTRIBUTE /\ FieldAlias(f) \notin DOMAIN xml_elem.attrib}

\* the element has something that fails the bind whatever the defaults: an id
\* or type attribute that is absent or does not convert, another attribute
\* that is no number, a <name> child that lacks one of its attributes (no
\* child is named thumbnail or image, and a description is any text)
OtherwiseInvalid ==
    \/ "id" \notin DOMAIN xml_elem.attrib
    \/ "type" \notin DOMAIN xml_elem.attrib
    \/ \E k \in DOMAIN xml_elem.attrib \ {"type"} : ~IsIntStr(xml_elem.attrib[k])
    \/ \E i \in ChildrenNamed("name") :
          {"type", "value", "sortindex"} \ DOMAIN xml_elem.children[i].attrib # {}

C10_WarningsExact ==
    Bound =>
        /\ \A f \in FieldsOf(BGGGame) :
              LET t == IF f.xml_tag # Unset THEN f.xml_tag ELSE FieldAlias(f)
                  v == GetXmlValue(xml_elem, t, f.lookup_strategy)
              IN /\ Count(log, Warning(t, xml_elem)) =
                        IF f.lookup_strategy # AUTO /\ v = None THEN 1 ELSE 0
                 /\ (t \in DOMAIN full_dict) = (v # None)
                 /\ v # None => full_dict[t] = v
        /\ \A n \in {"polls", "statistics", "fetchedat"} :
              Warning(n, xml_elem) \notin Range(log)

\* C10 witness: a warning for the missing id, none for polls, and the link
\* field, which comes later in the schema, in the value map all the same.
C10_Witness ==
    /\ Bound
    /\ Warning("id", xml_elem) \in Range(log)
    /\ Warning("polls", xml_elem) \notin Range(log)
    /\ "link" \in DOMAIN full_dict
    /\ result = ValidationError

-----------------------------------------------------------------------------
(* Properties of binding a list. *)

ListBound == op = "validate_xml"

\* the record type of the list that was bound
ItemClass ==
    IF tag = "name" THEN "BGGName" ELSE IF tag = "link" THEN "BGGLink" ELSE "BGGGame"

\* the k-th input element binds
Binds(k) == FromXml(ItemClass, NthNamed(tag, k), now).ret.kind = "model"

InputLen == Cardinality(ChildrenNamed(tag))

\* C4: when the bind yields a list, it has one record per input element, the
\* i-th record bound from the i-th element; it yields a list whenever every
\* element binds, the empty list for the empty sequence.
C4_ListOrderAndCount ==
    ListBound =>
        /\ (\A k \in 1..InputLen : Binds(k)) => result.kind = "list"
        /\ result.kind = "list" =>
              /\ Len(result.val) = InputLen
              /\ \A k \in 1..InputLen :
                    /\ result.val[k] = FromXml(ItemClass, NthNamed(tag, k), now).ret
                    /\ result.val[k].val["value"] = PyStr(NthNamed(tag, k).attrib["value"])

\* C4 witness: three elements, the first and the last the same, bound to
\* three records in the order of the elements.
C4_Witness ==
    /\ ListBound /\ InputLen = 3 /\ result.kind = "list" /\ Len(result.val) = 3
    /\ NthNamed(tag, 1) = NthNamed(tag, 3) /\ NthNamed(tag, 1) # NthNamed(tag, 2)
    /\ result.val[1] = result.val[3] /\ result.val[1] # result.val[2]

\* C5: when one element of the sequence fails to bind, the list bind raises;
\* it never returns a list.  The same holds of the items get_thing binds.
C5_ListAllOrNothing ==
    ((ListBound \/ op = "get_thing") /\ \E k \in 1..InputLen : ~Binds(k))
        => result = ValidationError

\* C5 witness: of three elements the second fails (its sortindex is missing
\* or no number) while the first and the last bind, and the bind raises.
C5_Witness ==
    /\ ListBound /\ InputLen = 3
    /\ Binds(1) /\ ~Binds(2) /\ Binds(3)
    /\ result = ValidationError

-----------------------------------------------------------------------------
(* Properties of binding with an unrecognised strategy token. *)

\* the tags of the two fields of TokenModel
TokenTags == {ResolveTag(TokenModel(AUTO)[i]) : i \in 1..2}

\* C11: when the stored strategy token of the fields is no member of
\* XMLLookupStrategy, the bind goes through as it does under AUTO: each field
\* is in the value map exactly with the value the AUTO branch extracts, the
\* record (or the validation failure of that value) is the one the same
\* fields declared AUTO give, and no missing-field warning is logged.
C11_UnknownTokenIsAuto ==
    (Bound /\ strategy \in StoredTokens \ XMLLookupStrategy) =>
        /\ \A t \in TokenTags :
              IF GetXmlValueAuto(xml_elem, t) = None THEN t \notin DOMAIN full_dict
              ELSE t \in DOMAIN full_dict /\ full_dict[t] = GetXmlValueAuto(xml_elem, t)
        /\ result = FromXml(TokenClass(AUTO), xml_elem, now).ret
        /\ log = <<>>

\* an unrecognised token, one field found on a child and one found nowhere
C11_Witness ==
    /\ Bound /\ strategy = "xpath"
    /\ "type" \notin DOMAIN xml_elem.attrib
    /\ full_dict = [t \in {"type"} |-> PyStr(<<"val">>)]
    /\ result.kind = "model"
    /\ log = <<>>

-----------------------------------------------------------------------------
(* Properties of binding the same element twice. *)

BoundAgain == op = "from_xml_again"

\* the names of the fields of a game but fetched_at
ExtractedFields == {f.name : f \in FieldsOf(BGGGame)} \ {"fetched_at"}

-----------------------------------------------------------------------------
(* Properties of primary_name. *)

\* the positions of the entries of names whose name_type is "primary"
PrimaryPositions ==
    {i \in 1..Len(previous.val["names"].val) :
        previous.val["names"].val[i].val["name_type"] = PyStr(<<"primary">>)}

\* C13: primary_name is the value of the first entry of names, in list
\* order, whose name_type is "primary"; without such an entry it is the
\* decimal string of the id: digits only, no leading zero, denoting the id.
C13_PrimaryName ==
    op = "primary_name" =>
        IF PrimaryPositions # {}
        THEN \E i \in PrimaryPositions :
                /\ \A j \in PrimaryPositions : i <= j
                /\ result = previous.val["names"].val[i].val["value"]
        ELSE /\ result.kind = "str"
             /\ IsIntStr(result.val)
             /\ ParseInt(result.val) = previous.val["id"].val
             /\ Len(result.val) = 1 \/ result.val[1] # "0"

\* an alternate name, then two primary names: the first primary one is read
C13_Witness ==
    /\ op = "primary_name"
    /\ PrimaryPositions = {2, 3}
    /\ result = PyStr(<<"Gloomhaven">>)

\* only an alternate name, and an id written with a leading zero
C13_WitnessId ==
    /\ op = "primary_name"
    /\ PrimaryPositions = {}
    /\ Len(previous.val["names"].val) = 1
    /\ xml_elem.attrib["id"] = <<"0", "7">>
    /\ result = PyStr(<<"7">>)

-----------------------------------------------------------------------------
(* Properties of with_retry. *)

\* the wrapped function has failed on every attempt so far
AllFailed == \A i \in 1..Len(retry.outcomes) : retry.outcomes[i] # "ok"

\* C14: a call through with_retry(max_retries = N) invokes the wrapped
\* function at most N+1 times; a success is the last invocation and the call
\* returns on it; after N+1 failures the call has raised the exception of the
\* last attempt, having slept after every failure but the last (a wrapper
\* built with max_retries = -1 makes no attempt and raises RuntimeError).
C14_RetryBounded ==
    retry.pc # "idle" =>
        /\ Len(retry.outcomes) <= retry.max_retries + 1
        /\ \A i \in 1..Len(retry.outcomes) - 1 : retry.outcomes[i] # "ok"
        /\ retry.pc = "returned" <=>
              (retry.outcomes # <<>> /\ retry.outcomes[Len(retry.outcomes)] = "ok")
        /\ (retry.outcomes # <<>> /\ AllFailed
                /\ Len(retry.outcomes) = retry.max_retries + 1) =>
              /\ retry.pc = "raised"
              /\ Len(retry.sleeps) = retry.max_retries
              /\ retry.exc = retry.outcomes[Len(retry.outcomes)]
        /\ retry.pc = "raised" =>
              /\ AllFailed
              /\ Len(retry.outcomes) = retry.max_retries + 1
              /\ retry.outcomes = <<>> => retry.exc = "RuntimeError"
        /\ Len(retry.sleeps) <= Len(retry.outcomes)
        /\ \A i \in 1..Len(retry.sleeps) : retry.outcomes[i] # "ok"

\* three failures with max_retries = 2: raised, two sleeps
C14_Witness ==
    /\ retry.pc = "raised"
    /\ retry.max_retries = 2
    /\ retry.outcomes = <<"Exception", "RateLimitError", "Exception">>
    /\ retry.exc = "Exception"
    /\ Len(retry.sleeps) = 2

\* the backoff term of a sleep: its delay without the base delay
BackoffTerm(sl) ==
    sl.delay - (IF sl.after = "RateLimitError" THEN Seconds(RateLimitBaseDelay) ELSE 0)

-----------------------------------------------------------------------------
(* Properties of FileCache. *)

\* C16 as stated: a get on a key whose file exists but holds no readable
\* PickleData returns None and raises nothing, whatever the damage.
C16_CorruptIsMiss ==
    (cache_call.op = "get" /\ cache_call.before # None
        /\ cache_call.before.kind \in CorruptKinds) =>
            cache_call.ret = None /\ cache_call.raise = "none"

\* C17: with caching enabled, a set stores the value with the expiry
\* instant set time + ttl; a get of a stored entry returns its value at every
\* instant up to and including the expiry instant and leaves the entry, and
\* at a later instant it misses and deletes the entry; no get returns the
\* value of an entry whose expiry instant has passed.
C17_TimeToLive ==
    cache_enabled =>
        /\ (cache_call.op = "set" /\ cache_call.raise = "none"
                /\ Content(files, cache_call.key) # None
                /\ Content(files, cache_call.key).kind = "PickleData") =>
              Content(files, cache_call.key) =
                  PickleData(cache_call.value, cache_call.at + cache_call.ttl)
        /\ (cache_call.op = "get" /\ cache_call.before # None
                /\ cache_call.before.kind = "PickleData") =>
              IF cache_call.at <= cache_call.before.expires_at
              THEN /\ cache_call.ret = cache_call.before.value
                   /\ cache_call.raise = "none"
              ELSE /\ cache_call.ret = None
                   /\ cache_call.raise = "none"
                   /\ Content(files, cache_call.key) = None
        /\ (cache_call.op = "get" /\ cache_call.ret # None) =>
              /\ cache_call.before # None
              /\ cache_call.before.kind = "PickleData"
              /\ cache_call.before.expires_at >= cache_call.at

\* a get after the expiry instant: a miss, and the file is gone
C17_Witness ==
    /\ cache_enabled
    /\ cache_call.op = "get"
    /\ cache_call.before = PickleData(PyStr(<<"v1">>), 1)
    /\ cache_call.at = 2
    /\ cache_call.ret = None
    /\ get_cache_path(cache_call.key) \notin DOMAIN files

-----------------------------------------------------------------------------
(* Properties of the response cache. *)

\* two calls ask for the same thing
SameRequest(a, b) == a.thing_ids = b.thing_ids /\ a.include_stats = b.include_stats

\* C18 as stated: two get_thing calls with equal thing_ids and include_stats
\* have the same cache key whichever client makes them, so that the later
\* one, made within the time to live of what the earlier one stored, is a
\* hit and issues no request; two calls that differ in an argument have
\* different keys.
C18_KeyIsRequestIdentity ==
    \A i, j \in 1..Len(calls) :
        i < j =>
            /\ SameRequest(calls[i], calls[j]) =>
                  /\ calls[i].key = calls[j].key
                  /\ (calls[i].raise = "none" /\ calls[j].at <= calls[i].at + CacheTtl) =>
                        calls[j].hit /\ calls[j].ret = calls[i].ret
            /\ ~SameRequest(calls[i], calls[j]) => calls[i].key # calls[j].key

-----------------------------------------------------------------------------
(* Properties of the rate limit. *)

\* C19 as stated: between any two consecutive outbound requests issued
\* through the client at least the rate-limit delay elapses, whether the two
\* come from different get_thing calls or from two attempts of one call.
C19_RateLimitBetweenRequests ==
    \A i \in 1..Len(requests) - 1 :
        requests[i + 1].at - requests[i].at >= Seconds(RateLimitDelay)

-----------------------------------------------------------------------------
(* Properties of setup_logging. *)

\* the thread is inside the with block
Inside(t) == logging.pc[t] \in {"check", "remove", "add", "flag", "release"}

\* the thread has removed the old handlers and not yet installed the new one
Midway(t) == logging.pc[t] = "add"

\* C20: whatever the number of calls and threads, the configuration body
\* runs at most once, and exactly once as soon as a call has completed; from
\* then on the root logger holds the console handler alone and no call
\* changes it; at most one thread is inside the with block, so no other call
\* sees the root logger between the removal and the installation.
C20_OnceOnly ==
    logging.pc # <<>> =>
        /\ logging.runs <= 1
        /\ (\E t \in Threads : logging.made[t] > 0) => logging.configured
        /\ logging.configured => (logging.runs = 1 /\ logging.handlers = <<"console">>)
        /\ \A t, u \in Threads : (Inside(t) /\ Inside(u)) => t = u
        /\ \A t \in Threads : Inside(t) <=> logging.lock = t
        /\ \A t, u \in Threads : (Midway(t) /\ u # t) => ~Inside(u)
        /\ (logging.runs = 1 /\ ~(\E t \in Threads : Midway(t))) =>
              logging.handlers = <<"console">>

\* the second thread is inside a repeated call, after the first thread has
\* configured logging over an older handler
C20_Witness ==
    /\ logging.pc # <<>>
    /\ logging.made["th1"] = 1
    /\ logging.made["th2"] = 1
    /\ logging.pc["th2"] = "release"
    /\ logging.pc["th3"] = "idle"
    /\ logging.runs = 1
    /\ logging.handlers = <<"console">>

====
